---- MODULE Spec2Model ----
(***************************************************************************)
(* The per-frame editing controller and the field-line seeding loop of     *)
(* src/main.c (UpdateDrawFrame), as a state machine.                       *)
(*                                                                         *)
(* One frame of UpdateDrawFrame is a fixed sequence of blocks; pc names    *)
(* the block that runs next.  The host (raylib) input of a frame is drawn  *)
(* from small sets at the block that reads it first.  Characters are their *)
(* ASCII codes, as GetCharPressed returns them.                            *)
(*                                                                         *)
(* Floats: a charge value is the decimal the buffer denotes, as the pair   *)
(* [m, e] standing for m * 10^(-e).  A buffer holds at most 10 characters, *)
(* so the decimal is 0 or has a magnitude within 1e-9 .. 1e10: strtof      *)
(* rounds none of these to zero and none to infinity, and sign and         *)
(* zero-ness of the float are those of the decimal.                        *)
(*                                                                         *)
(* The camera (free-fly movement, cursor capture) is left out: the picking *)
(* it feeds is an input here, the set of world points whose projection     *)
(* lies within the pick radius of the pointer.                             *)
(***************************************************************************)
EXTENDS Integers, Sequences, FiniteSets, TLC

VARIABLES
    charges,          \* Charge charges[MAX_CHARGES]
    numCharges,       \* int numCharges
    selectedCharge,   \* int selectedCharge
    freeCameraMode,   \* bool freeCameraMode
    fieldLineSteps,   \* int fieldLineSteps
    lineResolution,   \* int lineResolution
    chargeInput,      \* char chargeInput[16]
    inputLength,      \* int inputLength
    isTyping,         \* bool isTyping
    leftDown,         \* IsMouseButtonDown(MOUSE_BUTTON_LEFT) of this frame
    leftPressed,      \* IsMouseButtonPressed(MOUSE_BUTTON_LEFT) of this frame
    mouse,            \* the pointer of this frame: its ray and what it is near
    pc,               \* the block of UpdateDrawFrame that runs next
    frame,            \* what this frame did so far (observations, not program state)
    grabbed,          \* the index the charge the drag was started on is at now, if any
    traced,           \* what the last frame's tracing did (its output)
    user              \* what the user does in this session (see Habits)

vars == <<charges, numCharges, selectedCharge, freeCameraMode, fieldLineSteps,
          lineResolution, chargeInput, inputLength, isTyping, leftDown,
          leftPressed, mouse, pc, frame, grabbed, traced, user>>

----------------------------------------------------------------------------
(* Program constants *)

MAX_CHARGES == 100

INPUT_SIZE == 16

INPUT_MAX == 10

DEFAULT_STEPS == 3000

DEFAULT_RESOLUTION == 3

MIN_STEPS == 10

STEP_KEY_DELTA == 5

GROUND_LIMIT == 50

NUL == 0

----------------------------------------------------------------------------
(* Bounds of the model *)

\* The user keeps the scene within MaxScene charges of empty or of full.
MaxScene == 2

\* The user raises the angular resolution to at most MaxResolution ...
MaxResolution == 3

\* ... and changes the step budget at most MaxStepKeys key repeats away
\* from where it started.
MaxStepKeys == 1

----------------------------------------------------------------------------
(* Values *)

Vec(x, y, z) == <<x, y, z>>

Val(m, e) == [m |-> m, e |-> e]

Zero == Val(0, 0)

IsZero(v) == v.m = 0

IsPositive(v) == v.m > 0

Charge(p, v) == [position |-> p, value |-> v]

\* A static array element before anything is stored in it.
ZeroCharge == Charge(Vec(0, 0, 0), Zero)

Abs(x) == IF x < 0 THEN -x ELSE x

Clamp(x, lo, hi) == IF x < lo THEN lo ELSE IF x > hi THEN hi ELSE x

----------------------------------------------------------------------------
(* char chargeInput[16]: a NUL-terminated string in a fixed array *)

MINUS == 45

DOT == 46

DIGIT_0 == 48

DIGIT_9 == 57

IsDigit(c) == c >= DIGIT_0 /\ c <= DIGIT_9

\* (key >= '0' && key <= '9') || key == '.' || key == '-'
IsBufferChar(key) == IsDigit(key) \/ key = DOT \/ key = MINUS

EmptyInput == [i \in 0..(INPUT_SIZE - 1) |-> NUL]

\* strlen: the index of the first NUL (INPUT_SIZE when the array holds none).
StrLen(buf) ==
    CHOOSE n \in 0..INPUT_SIZE :
        /\ \A i \in 0..(n - 1) : buf[i] # NUL
        /\ n = INPUT_SIZE \/ buf[n] = NUL

\* The string the array holds, as a sequence.
CStr(buf) == [i \in 1..StrLen(buf) |-> buf[i - 1]]

\* How many digits s holds from position i on.
RECURSIVE DigitRun(_, _)
DigitRun(s, i) ==
    IF i <= Len(s) /\ IsDigit(s[i]) THEN 1 + DigitRun(s, i + 1) ELSE 0

\* The number a sequence of digits denotes.
RECURSIVE DigitsValue(_)
DigitsValue(ds) ==
    IF ds = <<>> THEN 0
    ELSE 10 * DigitsValue(SubSeq(ds, 1, Len(ds) - 1)) + (ds[Len(ds)] - DIGIT_0)

\* m * 10^(-e) with no trailing zero in its fraction; every zero is Zero.
RECURSIVE Normal(_, _)
Normal(m, e) ==
    IF m = 0 THEN Zero
    ELSE IF e > 0 /\ m % 10 = 0 THEN Normal(m \div 10, e - 1)
    ELSE Val(m, e)

\* strtof(chargeInput, NULL) on what the buffer can hold: an optional sign (the
\* buffer holds no '+'),
\* digits, an optional point and digits; the longest such prefix is
\* converted, and 0 is returned when it holds no digit.  (The buffer never
\* holds white space, an exponent or a letter.)
StrToF(buf) ==
    LET s == CStr(buf)
        signed == Len(s) >= 1 /\ s[1] = MINUS
        neg == Len(s) >= 1 /\ s[1] = MINUS
        start == IF signed THEN 2 ELSE 1
        ni == DigitRun(s, start)
        hasDot == start + ni <= Len(s) /\ s[start + ni] = DOT
        nf == IF hasDot THEN DigitRun(s, start + ni + 1) ELSE 0
        ds == SubSeq(s, start, start + ni - 1)
                  \o SubSeq(s, start + ni + 1, start + ni + nf)
        mag == DigitsValue(ds)
    IN  IF ni + nf = 0 THEN Zero
        ELSE Normal(IF neg THEN 0 - mag ELSE mag, nf)

\* A mutant of AppendChar: the length test lets an eleventh character in.
AppendCharOffByOne(buf, len, key) ==
    IF IsBufferChar(key) /\ len <= INPUT_MAX
    THEN [input |-> [buf EXCEPT ![len] = key, ![len + 1] = NUL],
          length |-> len + 1]
    ELSE [input |-> buf, length |-> len]

\* One turn of the GetCharPressed loop.
AppendChar(buf, len, key) ==
    IF IsBufferChar(key) /\ len < INPUT_MAX
    THEN [input |-> [buf EXCEPT ![len] = key, ![len + 1] = NUL],
          length |-> len + 1]
    ELSE [input |-> buf, length |-> len]

\* if (IsKeyPressed(KEY_BACKSPACE) && inputLength > 0) chargeInput[--inputLength] = '\0';
Backspace(buf, len) ==
    IF len > 0
    THEN [input |-> [buf EXCEPT ![len - 1] = NUL], length |-> len - 1]
    ELSE [input |-> buf, length |-> len]

\* chargeInput[0] = '\0'; inputLength = 0;
ResetInput(buf) == [input |-> [buf EXCEPT ![0] = NUL], length |-> 0]

----------------------------------------------------------------------------
(* Geometry *)

\* GetGroundIntersection.  The rays of the model have a vertical direction
\* component of -1, 0 or 1, so that t is exact.
GetGroundIntersection(ray) ==
    LET py == ray.position[2]
        dy == ray.direction[2]
        t == (0 - py) \div dy
    IN  IF Abs(dy) * 1000 < 1 THEN [ok |-> FALSE, pos |-> Vec(0, 0, 0)]
        ELSE IF t < 0 THEN [ok |-> FALSE, pos |-> Vec(0, 0, 0)]
        ELSE [ok |-> TRUE,
              pos |-> Vec(Clamp(ray.position[1] + ray.direction[1] * t,
                                0 - GROUND_LIMIT, GROUND_LIMIT),
                          0,
                          Clamp(ray.position[3] + ray.direction[3] * t,
                                0 - GROUND_LIMIT, GROUND_LIMIT))]

----------------------------------------------------------------------------
(* The charge array *)

Slots == 0..(MAX_CHARGES - 1)

\* arr[i] = c.  A store past the last element lands outside the array; the
\* model keeps it, at its index, so that it shows.
Store(arr, i, c) ==
    IF i \in DOMAIN arr THEN [arr EXCEPT ![i] = c]
    ELSE [k \in DOMAIN arr \cup {i} |-> IF k = i THEN c ELSE arr[k]]

\* The charges of the scene, in order: charges[0 .. numCharges - 1].
Scene(arr, n) == [i \in 1..n |-> arr[i - 1]]

\* The scan of both click handlers: the first charge whose projection lies
\* within the pick radius of the pointer, -1 when there is none.
FirstHit(arr, n, near) ==
    LET hits == {i \in 0..(n - 1) : arr[i].position \in near}
    IN  IF hits = {} THEN -1
        ELSE CHOOSE i \in hits : \A k \in hits : i <= k

\* A mutant of AddCharge: no capacity test.
AddChargeUnchecked(arr, n, c) == [charges |-> Store(arr, n, c), count |-> n + 1]

\* if (numCharges < MAX_CHARGES) charges[numCharges++] = (Charge){spawnPos, val};
AddCharge(arr, n, c) ==
    IF n < MAX_CHARGES THEN [charges |-> Store(arr, n, c), count |-> n + 1]
    ELSE [charges |-> arr, count |-> n]

\* A mutant of CompactFrom: the shift starts one element late.
CompactFromLate(arr, n, d) ==
    [k \in DOMAIN arr |-> IF k >= d + 1 /\ k < n - 1 THEN arr[k + 1] ELSE arr[k]]

\* for (int k = deleteIndex; k < numCharges - 1; k++) charges[k] = charges[k + 1];
CompactFrom(arr, n, d) ==
    [k \in DOMAIN arr |-> IF k >= d /\ k < n - 1 THEN arr[k + 1] ELSE arr[k]]

\* A mutant of CanPlace: the value is not tested.
CanPlaceAnyValue(val, ground) == ground.ok

\* if (val != 0.0f && GetGroundIntersection(ray, &spawnPos))
CanPlace(val, ground) == ~IsZero(val) /\ ground.ok

\* A mutant of TypingAfterSelect: selecting leaves value entry as it is.
TypingAfterSelectKept(typing) == typing

\* isTyping = false; // Stop typing if we select a charge
TypingAfterSelect(typing) == FALSE

\* A mutant of TypingAfterEscape: Escape is ignored.
TypingAfterEscapeKept(typing) == typing

\* if (IsKeyPressed(KEY_ESCAPE)) isTyping = false;
TypingAfterEscape(typing) == FALSE

----------------------------------------------------------------------------
(* The tracer's loops *)

\* A mutant of SeedsPerCharge: the theta loop starts at the pole.
SeedsPerChargeWithPole(res) ==
    LET num_phi == 4 * res
        num_theta == 3 * res
    IN  Cardinality({tp \in (0..(num_theta - 1)) \X (0..(num_phi - 1)) : TRUE})

\* for (t = 1; t < num_theta; t++) for (p = 0; p < num_phi; p++): the
\* number of seed integrations the two loops start.
SeedsPerCharge(res) ==
    LET num_phi == 4 * res
        num_theta == 3 * res
    IN  Cardinality({tp \in (1..(num_theta - 1)) \X (0..(num_phi - 1)) : TRUE})

\* for (j = 0; j < numCharges; j++) { if (charges[j].value <= 0) continue; ...
SeedsStarted(arr, n, res) ==
    [j \in 0..(n - 1) |-> IF ~IsPositive(arr[j].value) THEN 0 ELSE SeedsPerCharge(res)]

\* How a seed integration ends: at step `at` by a break before the point is
\* advanced (a sink is hit, the field vanishes), by the break after it (the
\* point escapes), or never (the step budget runs out).  Which of them
\* happens is decided by float arithmetic the model does not follow.
Endings(steps) ==
    {[cause |-> c, at |-> a] : c \in {"sink", "vanished", "escaped"},
                               a \in {0, steps - 1}}
        \cup {[cause |-> "budget", at |-> steps]}

\* for (step = 0; step < fieldLineSteps; step++): how many times the point
\* is advanced.
StepsRun(steps, ending) ==
    IF ending.cause = "budget" THEN steps
    ELSE IF ending.cause = "escaped" THEN ending.at + 1
    ELSE ending.at

----------------------------------------------------------------------------
(* What the host reports in a frame *)

\* The two places charges start at.
PosLeft == Vec(-8, 0, 0)

PosRight == Vec(8, 0, 0)

\* A pointer ray from straight above a ground point.
RayOnto(p) == [position |-> Vec(p[1], 5, p[3]), direction |-> Vec(0, -1, 0)]

\* A ray along the ground plane, and one that points away from it.
RayParallel == [position |-> Vec(0, 5, 0), direction |-> Vec(1, 0, 0)]

RayAway == [position |-> Vec(0, 5, 0), direction |-> Vec(0, 1, 0)]

\* The pointers of the model: the ray under the cursor (GetMouseRay) and the
\* world points whose projection (GetWorldToScreen) lies within 20 pixels of
\* the cursor (CheckCollisionPointCircle).
Pointers ==
    {[ray |-> RayOnto(PosLeft), near |-> {PosLeft}],
     [ray |-> RayOnto(PosRight), near |-> {PosRight}],
     [ray |-> RayParallel, near |-> {}],
     [ray |-> RayAway, near |-> {}]}

\* The characters the user types: '-', '.', '0', '5', and two the buffer
\* refuses, '/' and ':' (the neighbours of '.', '0' and '9').
TypedKeys == {MINUS, DOT, DIGIT_0, DIGIT_0 + 5, DIGIT_0 - 1, DIGIT_9 + 1}

\* What a user does in one session.  An editing user clicks, drags, deletes
\* and types short values; a typing user types a long value and clicks with
\* the pointer off the ground and off every charge; a tuning user presses
\* only the arrow keys; a filling user edits a scene that is nearly full, and
\* leaves alone the charges at PosLeft it starts with.  All of them toggle
\* the camera mode.
Habits == {"edit", "type", "tune"}

PointersOf(habit) ==
    CASE habit = "edit" -> {m \in Pointers : m.ray # RayParallel}
      [] habit = "type" -> {m \in Pointers : m.near = {}}
      [] habit = "fill" -> {m \in Pointers : m.ray # RayParallel /\ PosLeft \notin m.near}
      [] OTHER -> {m \in Pointers : m.ray = RayAway}

\* The texts a user types, whole or in part.  Editing: ".5-" (zero until
\* its digit, then 0.5, leniently).  Typing: "-.00000005", ten characters.
TypedTexts(habit) ==
    CASE habit \in {"edit", "fill"} ->
            {<<DOT, DIGIT_0 + 5, MINUS>>}
      [] habit = "type" ->
            {<<MINUS, DOT, DIGIT_0, DIGIT_0, DIGIT_0, DIGIT_0, DIGIT_0, DIGIT_0,
               DIGIT_0, DIGIT_0 + 5>>}
      [] OTHER -> {<<>>}

IsTypedText(habit, s) ==
    \E w \in TypedTexts(habit) : Len(s) <= Len(w) /\ s = SubSeq(w, 1, Len(s))

\* With s in the buffer, the user types a key that continues a text, or one
\* the buffer refuses whatever it holds, or, ten characters in, any key.
UserTypes(habit, s, key) ==
    \/ IsTypedText(habit, Append(s, key))
    \/ ~IsBufferChar(key)
    \/ Len(s) >= INPUT_MAX

\* The scene sizes the user keeps to: near empty, or near full.
SceneSizes == (0..MaxScene) \cup ((MAX_CHARGES - MaxScene)..MAX_CHARGES)

\* An editing user attempts a placement when it keeps the scene within the
\* sizes kept to, or when the scene is full; and deletes likewise.
MayPlace ==
    /\ user \in {"edit", "fill"}
    /\ (numCharges + 1) \in SceneSizes \/ numCharges = MAX_CHARGES

MayDelete ==
    /\ user \in {"edit", "fill"}
    /\ (numCharges - 1) \in SceneSizes

\* The step budgets the user keeps to: up from the default, or up from the
\* least.
StepBudgets ==
    (DEFAULT_STEPS..(DEFAULT_STEPS + STEP_KEY_DELTA * MaxStepKeys))
        \cup (0..(MIN_STEPS + STEP_KEY_DELTA * MaxStepKeys))

NoPointer == [ray |-> RayAway, near |-> {}]

\* What a frame was seen to do:
\*   place      how the "place it" branch of the left click ended
\*              ("placed", "full", "rejected"), "none" when it did not run
\*   cancelled  the left click selected a charge while a value was being typed
\*   right      the right button was pressed
\*   deleted    the index the right click deleted, -1 when it deleted nothing
\*   capped     a character was refused because the buffer was full
\*   escape     Escape was pressed while a value was being typed
NoEvents ==
    [place |-> "none", cancelled |-> FALSE, right |-> FALSE, deleted |-> -1,
     capped |-> FALSE, escape |-> FALSE]

NoTrace == [done |-> FALSE, seeds |-> <<>>, steps |-> 0]

\* No charge is being dragged, or the one that was has been deleted.
NotGrabbed == {}

----------------------------------------------------------------------------
(* The state after main's set-up *)

Init ==
    /\ charges = [i \in Slots |->
                    IF i = 0 THEN Charge(PosLeft, Val(2, 0))
                    ELSE IF i = 1 THEN Charge(PosRight, Val(-2, 0))
                    ELSE ZeroCharge]
    /\ numCharges = 2
    /\ selectedCharge = -1
    /\ freeCameraMode = TRUE
    /\ fieldLineSteps = DEFAULT_STEPS
    /\ lineResolution = DEFAULT_RESOLUTION
    /\ chargeInput = EmptyInput
    /\ inputLength = 0
    /\ isTyping = FALSE
    /\ leftDown = FALSE
    /\ leftPressed = FALSE
    /\ mouse = NoPointer
    /\ pc = "begin"
    /\ frame = NoEvents
    /\ grabbed = NotGrabbed
    /\ traced = NoTrace
    /\ user \in Habits

\* A session that has filled the scene: all but at most one of the slots
\* hold a charge the user placed at PosLeft, the step budget is at its
\* least, and the editor is in mouse mode.
InitFull ==
    /\ charges = [i \in Slots |-> Charge(PosLeft, Val(5, 0))]
    /\ numCharges \in {MAX_CHARGES - 1, MAX_CHARGES}
    /\ selectedCharge = -1
    /\ freeCameraMode = FALSE
    /\ fieldLineSteps = MIN_STEPS
    /\ lineResolution = 1
    /\ chargeInput = EmptyInput
    /\ inputLength = 0
    /\ isTyping = FALSE
    /\ leftDown = FALSE
    /\ leftPressed = FALSE
    /\ mouse = NoPointer
    /\ pc = "begin"
    /\ frame = NoEvents
    /\ grabbed = NotGrabbed
    /\ traced = NoTrace
    /\ user = "fill"

----------------------------------------------------------------------------
(* The blocks of UpdateDrawFrame *)

\* Where a frame goes after the mouse-mode block: into if (isTyping), or
\* past it.
TypingBlock(typing) == IF typing THEN "chars" ELSE "render"

\* The head of the frame: F toggles the camera mode, and the pointer is
\* read.  leftDown still holds the button's state of the frame before.
BeginFrame ==
    /\ pc = "begin"
    /\ \E keyF \in BOOLEAN, down \in BOOLEAN, m \in PointersOf(user) :
        LET free == IF keyF THEN ~freeCameraMode ELSE freeCameraMode
            typing == IF keyF /\ free THEN FALSE ELSE isTyping
            pressed == down /\ ~leftDown
        IN  /\ down => user \in {"edit", "type", "fill"}
            /\ (pressed /\ isTyping /\ inputLength > 0) => MayPlace
            /\ freeCameraMode' = free
            /\ isTyping' = typing
            /\ leftDown' = down
            /\ leftPressed' = pressed
            /\ mouse' = m
            /\ pc' = IF free THEN TypingBlock(typing) ELSE "params"
    /\ traced' = NoTrace
    /\ UNCHANGED <<frame, charges, numCharges, selectedCharge, fieldLineSteps,
                   lineResolution, chargeInput, inputLength, grabbed, user>>

\* The arrow keys: the step budget and the angular resolution.
ParamKeys ==
    /\ pc = "params"
    /\ \E up \in BOOLEAN, down \in BOOLEAN, right \in BOOLEAN, left \in BOOLEAN :
        LET s1 == IF up THEN fieldLineSteps + STEP_KEY_DELTA ELSE fieldLineSteps
            s2 == IF down
                  THEN (IF s1 - STEP_KEY_DELTA < MIN_STEPS THEN MIN_STEPS
                        ELSE s1 - STEP_KEY_DELTA)
                  ELSE s1
            r1 == IF right THEN lineResolution + 1 ELSE lineResolution
            r2 == IF left THEN (IF r1 - 1 < 1 THEN 1 ELSE r1 - 1) ELSE r1
        IN  /\ (up \/ down \/ right \/ left) => user = "tune"
            /\ s1 \in StepBudgets /\ s2 \in StepBudgets
            /\ r1 <= MaxResolution
            /\ fieldLineSteps' = s2
            /\ lineResolution' = r2
    /\ pc' = "left"
    /\ UNCHANGED <<charges, numCharges, selectedCharge, freeCameraMode, chargeInput,
                   inputLength, isTyping, leftDown, leftPressed, mouse, frame,
                   grabbed, traced, user>>

\* if (IsMouseButtonPressed(MOUSE_BUTTON_LEFT)): select a charge, or place
\* the typed value, or start typing.
LeftClick ==
    /\ pc = "left"
    /\ pc' = "drag"
    /\ IF ~leftPressed
       THEN UNCHANGED <<charges, numCharges, selectedCharge, chargeInput,
                        inputLength, isTyping, frame, grabbed>>
       ELSE LET hit == FirstHit(charges, numCharges, mouse.near)
            IN  IF hit # -1
                THEN /\ selectedCharge' = hit
                     /\ grabbed' = {hit}
                     /\ isTyping' = TypingAfterSelect(isTyping)
                     /\ frame' = [frame EXCEPT !.cancelled = isTyping]
                     /\ UNCHANGED <<charges, numCharges, chargeInput, inputLength>>
                ELSE /\ selectedCharge' = -1
                     /\ grabbed' = NotGrabbed
                     /\ IF isTyping /\ inputLength > 0
                        THEN LET val == StrToF(chargeInput)
                                 ground == GetGroundIntersection(mouse.ray)
                                 added == AddCharge(charges, numCharges,
                                                    Charge(ground.pos, val))
                                 reset == ResetInput(chargeInput)
                             IN  /\ frame' = [frame EXCEPT !.place =
                                                IF ~CanPlace(val, ground) THEN "rejected"
                                                ELSE IF added.count = numCharges THEN "full"
                                                ELSE "placed"]
                                 /\ IF CanPlace(val, ground)
                                    THEN /\ charges' = added.charges
                                         /\ numCharges' = added.count
                                         /\ isTyping' = FALSE
                                         /\ chargeInput' = reset.input
                                         /\ inputLength' = reset.length
                                    ELSE UNCHANGED <<charges, numCharges, isTyping,
                                                     chargeInput, inputLength>>
                        ELSE LET reset == ResetInput(chargeInput)
                             IN  /\ isTyping' = TRUE
                                 /\ chargeInput' = reset.input
                                 /\ inputLength' = reset.length
                                 /\ UNCHANGED <<charges, numCharges, frame>>
    /\ UNCHANGED <<freeCameraMode, fieldLineSteps, lineResolution, leftDown,
                   leftPressed, mouse, traced, user>>

\* if (selectedCharge != -1): the selected charge follows the pointer while
\* the button is down, and is deselected when it is not.
Drag ==
    /\ pc = "drag"
    /\ pc' = "right"
    /\ IF selectedCharge = -1
       THEN UNCHANGED <<charges, selectedCharge, grabbed>>
       ELSE IF leftDown
            THEN LET ground == GetGroundIntersection(mouse.ray)
                 IN  /\ charges' = IF ground.ok
                                   THEN Store(charges, selectedCharge,
                                              [charges[selectedCharge]
                                                  EXCEPT !.position = ground.pos])
                                   ELSE charges
                     /\ UNCHANGED <<selectedCharge, grabbed>>
            ELSE /\ selectedCharge' = -1
                 /\ grabbed' = NotGrabbed
                 /\ UNCHANGED charges
    /\ UNCHANGED <<numCharges, freeCameraMode, fieldLineSteps, lineResolution,
                   chargeInput, inputLength, isTyping, leftDown, leftPressed,
                   mouse, frame, traced, user>>

\* if (IsMouseButtonPressed(MOUSE_BUTTON_RIGHT)): delete the first charge
\* under the pointer.
RightClick ==
    /\ pc = "right"
    /\ \E pressed \in BOOLEAN :
        LET deleteIndex == IF pressed
                           THEN FirstHit(charges, numCharges, mouse.near)
                           ELSE -1
        IN  /\ frame' = [frame EXCEPT !.right = pressed, !.deleted = deleteIndex]
            /\ IF deleteIndex # -1
               THEN /\ MayDelete
                    /\ charges' = CompactFrom(charges, numCharges, deleteIndex)
                    /\ numCharges' = numCharges - 1
                    /\ isTyping' = FALSE
                    /\ grabbed' = {IF g > deleteIndex THEN g - 1 ELSE g :
                                        g \in grabbed \ {deleteIndex}}
                    /\ pc' = TypingBlock(FALSE)
               ELSE /\ UNCHANGED <<charges, numCharges, isTyping, grabbed>>
                    /\ pc' = TypingBlock(isTyping)
    /\ UNCHANGED <<selectedCharge, freeCameraMode, fieldLineSteps, lineResolution,
                   chargeInput, inputLength, leftDown, leftPressed, mouse, traced, user>>

\* while ((key = GetCharPressed()) > 0): one character of the queue.
TypeChar ==
    /\ pc = "chars"
    /\ \E key \in TypedKeys :
        LET typed == AppendChar(chargeInput, inputLength, key)
        IN  /\ UserTypes(user, CStr(chargeInput), key)
            /\ chargeInput' = typed.input
            /\ inputLength' = typed.length
            /\ frame' = [frame EXCEPT !.capped =
                            @ \/ (IsBufferChar(key) /\ typed.length = inputLength)]
    /\ UNCHANGED <<charges, numCharges, selectedCharge, freeCameraMode,
                   fieldLineSteps, lineResolution, isTyping, leftDown, leftPressed,
                   mouse, pc, grabbed, traced, user>>

\* The character queue is empty: the loop ends.
CharsDone ==
    /\ pc = "chars"
    /\ pc' = "backspace"
    /\ UNCHANGED <<charges, numCharges, selectedCharge, freeCameraMode,
                   fieldLineSteps, lineResolution, chargeInput, inputLength,
                   isTyping, leftDown, leftPressed, mouse, frame, grabbed, traced, user>>

\* if (IsKeyPressed(KEY_BACKSPACE) && inputLength > 0) ...
BackspaceKey ==
    /\ pc = "backspace"
    /\ pc' = "key0"
    /\ \E key \in BOOLEAN :
        LET erased == IF key THEN Backspace(chargeInput, inputLength)
                      ELSE [input |-> chargeInput, length |-> inputLength]
        IN  /\ chargeInput' = erased.input
            /\ inputLength' = erased.length
    /\ UNCHANGED <<charges, numCharges, selectedCharge, freeCameraMode,
                   fieldLineSteps, lineResolution, isTyping, leftDown, leftPressed,
                   mouse, frame, grabbed, traced, user>>

\* if (IsKeyPressed(MOUSE_BUTTON_LEFT)): the key whose code is that of the
\* left button, 0.  Whether the host ever reports it is the host's business;
\* here it may on any frame.
KeyCommit ==
    /\ pc = "key0"
    /\ pc' = "escape"
    /\ \E key \in BOOLEAN :
        /\ IF ~key
           THEN UNCHANGED <<charges, numCharges, isTyping>>
           ELSE LET val == StrToF(chargeInput)
                    ground == GetGroundIntersection(mouse.ray)
                    place == numCharges < MAX_CHARGES /\ inputLength > 0
                             /\ CanPlace(val, ground)
                IN  /\ place => MayPlace
                    /\ charges' = IF place
                                  THEN Store(charges, numCharges,
                                             Charge(ground.pos, val))
                                  ELSE charges
                    /\ numCharges' = IF place THEN numCharges + 1 ELSE numCharges
                    /\ isTyping' = FALSE
    /\ UNCHANGED <<selectedCharge, freeCameraMode, fieldLineSteps, lineResolution,
                   chargeInput, inputLength, leftDown, leftPressed, mouse, frame,
                   grabbed, traced, user>>

\* if (IsKeyPressed(KEY_ESCAPE)) isTyping = false;
EscapeKey ==
    /\ pc = "escape"
    /\ pc' = "render"
    /\ \E key \in BOOLEAN :
        /\ frame' = [frame EXCEPT !.escape = key]
        /\ isTyping' = IF key THEN TypingAfterEscape(isTyping) ELSE isTyping
    /\ UNCHANGED <<charges, numCharges, selectedCharge, freeCameraMode,
                   fieldLineSteps, lineResolution, chargeInput, inputLength,
                   leftDown, leftPressed, mouse, grabbed, traced, user>>

\* The tracing loops of the render pass.  It draws, and changes nothing of
\* the program's state; traced is what it did: the seed integrations it
\* started for each charge, and the steps one of them ran.
Render ==
    /\ pc = "render"
    /\ pc' = "begin"
    /\ \E ending \in Endings(fieldLineSteps) :
        traced' = [done |-> TRUE,
                   seeds |-> SeedsStarted(charges, numCharges, lineResolution),
                   steps |-> StepsRun(fieldLineSteps, ending)]
    \* the frame's locals and what it was seen to do end with it
    /\ leftPressed' = FALSE
    /\ mouse' = NoPointer
    /\ frame' = NoEvents
    /\ UNCHANGED <<charges, numCharges, selectedCharge, freeCameraMode,
                   fieldLineSteps, lineResolution, chargeInput, inputLength,
                   isTyping, leftDown, grabbed, user>>

Next ==
    \/ BeginFrame
    \/ ParamKeys
    \/ LeftClick
    \/ Drag
    \/ RightClick
    \/ TypeChar
    \/ CharsDone
    \/ BackspaceKey
    \/ KeyCommit
    \/ EscapeKey
    \/ Render

Spec == Init /\ [][Next]_vars

\* The sessions of Init and those of InitFull.
SpecAnyScene == (Init \/ InitFull) /\ [][Next]_vars

----------------------------------------------------------------------------
(* Properties *)

\* All input handling of the frame is over.
FrameEnd == pc \in {"render", "begin"}

TheScene == Scene(charges, numCharges)

\* The left click of this frame runs the "place it" branch.
PlaceAttempt ==
    /\ pc = "left"
    /\ leftPressed
    /\ FirstHit(charges, numCharges, mouse.near) = -1
    /\ isTyping
    /\ inputLength > 0

CountInRange == numCharges \in 0..MAX_CHARGES /\ DOMAIN charges = Slots

\* C1: the charge count stays within 0..100 and nothing is stored outside
\* the array; a placement attempted with 100 charges present, by the click
\* or by the key, leaves the count at 100 and the array as it was.
C1_CountWithinCapacity ==
    /\ CountInRange
    /\ [][/\ CountInRange'
          /\ (numCharges = MAX_CHARGES /\ (PlaceAttempt \/ pc = "key0"))
                => (numCharges' = MAX_CHARGES /\ charges' = charges)]_vars

\* C1 witness: a placement with a good value and a ground hit was attempted
\* with 100 charges present.
C1_Witness == pc = "drag" /\ frame.place = "full" /\ numCharges = MAX_CHARGES

NonZeroScene == \A i \in 0..(numCharges - 1) : ~IsZero(charges[i].value)

\* C2: every charge of the scene has a non-zero value, from the two initial
\* charges on; a placement whose buffer parses to 0 leaves the count as it
\* is.
C2_NoZeroCharge ==
    /\ NonZeroScene
    /\ [][/\ NonZeroScene'
          /\ ((PlaceAttempt \/ pc = "key0") /\ IsZero(StrToF(chargeInput)))
                => numCharges' = numCharges]_vars

\* C2 witness: a click over ground tried to place a buffer that parses to 0.
C2_Witness ==
    /\ pc = "drag"
    /\ frame.place = "rejected"
    /\ GetGroundIntersection(mouse.ray).ok
    /\ inputLength > 0
    /\ IsZero(StrToF(chargeInput))

C4_SelectionExcludesTyping == FrameEnd => ~(selectedCharge # -1 /\ isTyping)

\* C4 witness: a frame ends with a charge selected by a click that cancelled
\* value entry.
C4_Witness == pc = "render" /\ frame.cancelled /\ selectedCharge # -1

\* C5: at the end of a frame the selected index is none or an index of the
\* scene.
C5_SelectionInScene ==
    FrameEnd => (selectedCharge = -1
                 \/ (0 <= selectedCharge /\ selectedCharge < numCharges))

\* C6: a rejected placement (the scene is full, the buffer parses to 0, or
\* the pointer ray meets no ground) changes neither the scene, nor the mode,
\* nor the buffer.
C6_RejectedPlacementNoOp ==
    [][(/\ PlaceAttempt
        /\ \/ numCharges = MAX_CHARGES
           \/ IsZero(StrToF(chargeInput))
           \/ ~GetGroundIntersection(mouse.ray).ok)
          => UNCHANGED <<charges, numCharges, isTyping, chargeInput, inputLength>>]_vars

\* C7, as claimed: Escape pressed while a value is typed ends the frame with
\* value entry off and the buffer empty, and adds no charge.
C7_EscapeClearsBuffer ==
    [][(pc = "escape" /\ frame'.escape)
          => /\ ~isTyping'
             /\ inputLength' = 0
             /\ chargeInput'[0] = NUL
             /\ numCharges' = numCharges
             /\ charges' = charges]_vars

\* C7, amended: Escape pressed while a value is typed ends the frame with
\* value entry off, adds no charge, and leaves the buffer as it is; the
\* buffer is emptied when value entry next starts.
C7_EscapeCancels ==
    [][/\ (pc = "escape" /\ frame'.escape)
            => /\ ~isTyping'
               /\ inputLength' = inputLength
               /\ chargeInput' = chargeInput
               /\ numCharges' = numCharges
               /\ charges' = charges
       /\ (~isTyping /\ isTyping')
            => (inputLength' = 0 /\ chargeInput'[0] = NUL)]_vars

\* C7 witness: Escape was pressed over a buffer that is not empty.
C7_Witness == pc = "render" /\ frame.escape /\ inputLength > 0 /\ ~isTyping

BufferOk ==
    /\ inputLength \in 0..INPUT_MAX
    /\ StrLen(chargeInput) = inputLength
    /\ \A i \in 0..(inputLength - 1) : IsBufferChar(chargeInput[i])

\* C8: the buffer holds at most 10 characters, each a digit, '-' or '.', and
\* inputLength is the length of the string in it; it grows only in the
\* character loop of a frame in which a value is being typed; Backspace on
\* the empty buffer changes nothing.
C8_BufferBounded ==
    /\ BufferOk
    /\ [][/\ BufferOk'
          /\ inputLength' > inputLength => (pc = "chars" /\ isTyping)
          /\ (pc = "backspace" /\ inputLength = 0)
                => UNCHANGED <<chargeInput, inputLength>>]_vars

\* C8 witness: a character was refused by a buffer of 10.
C8_Witness == frame.capped /\ inputLength = INPUT_MAX

\* C9: a frame's tracing starts (3 res - 1)(4 res) seed integrations for
\* each charge of positive value and none for any other (96 and 0 for the
\* two initial charges at the default resolution), and a seed integration
\* runs at most fieldLineSteps steps.
C9_SeedCount ==
    traced.done =>
        /\ DOMAIN traced.seeds = 0..(numCharges - 1)
        /\ \A j \in 0..(numCharges - 1) :
              traced.seeds[j] = IF charges[j].value.m > 0
                                THEN (3 * lineResolution - 1) * (4 * lineResolution)
                                ELSE 0
        /\ (numCharges = 2 /\ lineResolution = DEFAULT_RESOLUTION
              /\ charges[0].value = Val(2, 0) /\ charges[1].value = Val(-2, 0))
                => (traced.seeds[0] = 96 /\ traced.seeds[1] = 0)
        /\ traced.steps <= fieldLineSteps

\* C9 witness: the initial scene traced at the default resolution, with a
\* seed that used its whole budget.
C9_Witness ==
    /\ traced.done
    /\ numCharges = 2
    /\ lineResolution = DEFAULT_RESOLUTION
    /\ traced.seeds = [j \in 0..1 |-> IF j = 0 THEN 96 ELSE 0]
    /\ traced.steps = fieldLineSteps

\* C10: while a drag lasts, the drag step moves no charge of the scene but
\* the one the drag was started on (wherever deletions have shifted it to),
\* and changes no value.
C10_DragMovesGrabbedOnly ==
    [][pc = "drag" =>
        \A i \in 0..(numCharges - 1) :
            /\ charges'[i].value = charges[i].value
            /\ charges'[i].position # charges[i].position => i \in grabbed]_vars

====
